---- MODULE Spec2Model ----
(***************************************************************************)
(* airfine: the transform path (index.ts -> transformCommand ->            *)
(* createProvider -> <vendor>Provider.transform) as a state machine.       *)
(*                                                                         *)
(* Texts (prompt, context, model identifiers, results, error messages) are *)
(* sequences of characters, so that trim(), startsWith() and               *)
(* concatenation are computed.  Provider identifiers and API keys are      *)
(* atomic strings, "" standing for a missing (undefined or empty) value:   *)
(* the code only ever tests them for truthiness or equality.               *)
(***************************************************************************)
EXTENDS Naturals, Sequences, FiniteSets, TLC

\* ------------------------------------------------------------------ bounds
\* longest prompt / context / stdin text that is enumerated
MaxLen == 2
\* most content blocks in a Claude response, most choices in an OpenAI one
MaxBlocks == 2

\* the order of the API keys in the configuration file (the other variables
\* are declared after the operators, whose parameters bear their names)
VARIABLE keyOrder

\* ------------------------------------------------------------- JS values
\* null / undefined.  A text is a sequence of characters (or of longer tokens
\* where the code never looks inside); no text holds the token "null", so this
\* one-element sequence is different from every text.
NULL == <<"null">>

\* JS truthiness of a text-or-null value: null, undefined and the empty string are falsy
Truthy(v) == v # NULL /\ v # <<>>

\* String.prototype.trim(): strip leading and trailing white space
IsSpace(c) == c \in {" ", "\n", "\t"}

RECURSIVE TrimStart(_)
TrimStart(s) ==
  IF s = <<>> THEN <<>>
  ELSE IF IsSpace(Head(s)) THEN TrimStart(Tail(s)) ELSE s

RECURSIVE TrimEnd(_)
TrimEnd(s) ==
  IF s = <<>> THEN <<>>
  ELSE IF IsSpace(s[Len(s)]) THEN TrimEnd(SubSeq(s, 1, Len(s) - 1)) ELSE s

trim(s) == TrimEnd(TrimStart(s))

\* Array.prototype.join(newline) over a sequence of texts
RECURSIVE join(_)
join(ts) ==
  IF ts = <<>> THEN <<>>
  ELSE IF Len(ts) = 1 THEN ts[1]
  ELSE ts[1] \o <<"\n">> \o join(Tail(ts))

\* ------------------------------------------------------------ input sets
Chars == {" ", "a"}
TextsUpTo(n) == UNION {[1..k -> Chars] : k \in 0..n}
Texts == TextsUpTo(MaxLen)

ProviderIds == {"openai", "claude", "gemini"}

\* Model identifiers: the first character, then the rest of the identifier as
\* one token (the code inspects a model identifier only by startsWith(o)).
\* NoModel is the empty string / undefined of a model that is not given.
NoModel == <<>>
GPT4O == <<"g", "pt-4o">>
CLAUDE37 == <<"c", "laude-3-7-sonnet-latest">>
GEMINI20 == <<"g", "emini-2.0-flash">>
O3MINI == <<"o", "3-mini">>
GPT4OMINI == <<"g", "pt-4o-mini">>
CLAUDE35 == <<"c", "laude-3-5-haiku-latest">>
CLAUDE35SONNET == <<"c", "laude-3-5-sonnet-latest">>
O1MINI == <<"o", "1-mini">>
GEMINI20LITE == <<"g", "emini-2.0-flash-lite">>
GEMINI15PRO == <<"g", "emini-1.5-pro">>
O1 == <<"o", "1">>

\* the default value of the --context option, as one token
DefaultContext == <<"You are a skilled editor. Please improve the following text.">>

\* ------------------------------------------------------------ setup.ts
\* interface Config; "" / NoModel for a field that is not in the file
NoModels == [openai |-> NoModel, claude |-> NoModel, gemini |-> NoModel]

EmptyConfig ==
  [openaiApiKey |-> "", claudeApiKey |-> "", geminiApiKey |-> "",
   defaultProvider |-> "", defaultModels |-> NoModels]

\* the API key the configuration holds for a provider identifier
KeyOf(config, name) ==
  CASE name = "openai" -> config.openaiApiKey
    [] name = "claude" -> config.claudeApiKey
    [] name = "gemini" -> config.geminiApiKey
    [] OTHER -> ""

\* the providers that have a credential
Credentialed(config) == {p \in ProviderIds : KeyOf(config, p) # ""}

\* currentConfig[keyName] = keyAnswer.apiKey
SetKey(config, name, apiKey) ==
  CASE name = "openai" -> [config EXCEPT !.openaiApiKey = apiKey]
    [] name = "claude" -> [config EXCEPT !.claudeApiKey = apiKey]
    [] name = "gemini" -> [config EXCEPT !.geminiApiKey = apiKey]

\* the choices of the first question of setupCommand
SetupChoices == {"openai", "claude", "gemini", "default", "defaultModels"}

\* a key the user types: it is not blank and has the prefix asked for
TypedKey == [openai |-> "sk-o2", claude |-> "sk-ant-c2", gemini |-> "AIza-g2"]

\* a model the user types, and the one the question proposes
TypedModel == [openai |-> O3MINI, claude |-> CLAUDE35, gemini |-> GEMINI15PRO]
ProposedModel == [openai |-> GPT4O, claude |-> CLAUDE37, gemini |-> GEMINI20]

\* mutant: the provider whose key is saved always becomes the default
SaveKey_AlwaysDefault(currentConfig, name, apiKey) ==
  [SetKey(currentConfig, name, apiKey) EXCEPT !.defaultProvider = name]

\* setupCommand, API key input: the key is stored, and the provider becomes
\* the default provider if none is set
SaveKey(currentConfig, name, apiKey) ==
  LET updated == SetKey(currentConfig, name, apiKey)
  IN IF updated.defaultProvider = ""
     THEN [updated EXCEPT !.defaultProvider = name]
     ELSE updated

\* setupCommand, Set default provider
SetDefaultProvider(currentConfig, name) ==
  [currentConfig EXCEPT !.defaultProvider = name]

\* setupCommand, Set default models: one question per provider that has a
\* key; the answer is what is typed, or the proposed value on Enter
SetDefaultModels(currentConfig, typed) ==
  [currentConfig EXCEPT !.defaultModels =
     [p \in ProviderIds |->
        IF KeyOf(currentConfig, p) = "" THEN currentConfig.defaultModels[p]
        ELSE IF typed THEN TypedModel[p]
        ELSE IF currentConfig.defaultModels[p] # NoModel
             THEN currentConfig.defaultModels[p]
             ELSE ProposedModel[p]]]

\* ------------------------------------------------------- console output
\* one console.log / console.error call: the chalk colour, the fixed label
\* and the interpolated data
Log(color, label, data) == [via |-> "console", color |-> color, label |-> label, text |-> data]
\* one process.stdout.write call
Write(data) == [via |-> "write", color |-> "", label |-> "", text |-> data]

\* ------------------------------------------------ providers/index.ts
\* a backend instance: the constructor stores the key and the configuration
NoProvider == [kind |-> "none", apiKey |-> "", config |-> EmptyConfig]
NewProvider(kind, apiKey, config) == [kind |-> kind, apiKey |-> apiKey, config |-> config]

\* mutant: the claude case constructs the backend without checking the key
createProvider_NoClaudeCheck(providerName, config) ==
  CASE providerName = "openai" ->
         IF config.openaiApiKey = ""
         THEN [provider |-> NoProvider,
               err |-> <<Log("red", "OpenAI API key not found. Run airfine setup to configure.", <<>>)>>]
         ELSE [provider |-> NewProvider("openai", config.openaiApiKey, config), err |-> <<>>]
    [] providerName = "claude" ->
         [provider |-> NewProvider("claude", config.claudeApiKey, config), err |-> <<>>]
    [] providerName = "gemini" ->
         IF config.geminiApiKey = ""
         THEN [provider |-> NoProvider,
               err |-> <<Log("red", "Gemini API key not found. Run airfine setup to configure.", <<>>)>>]
         ELSE [provider |-> NewProvider("gemini", config.geminiApiKey, config), err |-> <<>>]
    [] OTHER ->
         [provider |-> NoProvider, err |-> <<Log("red", "Unknown provider: ", <<providerName>>)>>]

\* createProvider: the instance (or NoProvider for null) and the diagnostics
createProvider(providerName, config) ==
  CASE providerName = "openai" ->
         IF config.openaiApiKey = ""
         THEN [provider |-> NoProvider,
               err |-> <<Log("red", "OpenAI API key not found. Run airfine setup to configure.", <<>>)>>]
         ELSE [provider |-> NewProvider("openai", config.openaiApiKey, config), err |-> <<>>]
    [] providerName = "claude" ->
         IF config.claudeApiKey = ""
         THEN [provider |-> NoProvider,
               err |-> <<Log("red", "Claude API key not found. Run airfine setup to configure.", <<>>)>>]
         ELSE [provider |-> NewProvider("claude", config.claudeApiKey, config), err |-> <<>>]
    [] providerName = "gemini" ->
         IF config.geminiApiKey = ""
         THEN [provider |-> NoProvider,
               err |-> <<Log("red", "Gemini API key not found. Run airfine setup to configure.", <<>>)>>]
         ELSE [provider |-> NewProvider("gemini", config.geminiApiKey, config), err |-> <<>>]
    [] OTHER ->
         [provider |-> NoProvider, err |-> <<Log("red", "Unknown provider: ", <<providerName>>)>>]

\* ------------------------------------------------- the three backends
\* mutant: the configured default models are ignored
getDefaultModel_Hardcoded(self) ==
  CASE self.kind = "openai" -> GPT4O
    [] self.kind = "claude" -> CLAUDE37
    [] self.kind = "gemini" -> GEMINI20

\* getDefaultModel(): the configured default, else the hardcoded one
getDefaultModel(self) ==
  CASE self.kind = "openai" ->
         IF Truthy(self.config.defaultModels.openai) THEN self.config.defaultModels.openai ELSE GPT4O
    [] self.kind = "claude" ->
         IF Truthy(self.config.defaultModels.claude) THEN self.config.defaultModels.claude ELSE CLAUDE37
    [] self.kind = "gemini" ->
         IF Truthy(self.config.defaultModels.gemini) THEN self.config.defaultModels.gemini ELSE GEMINI20

\* mutant: the context is tested without trim()
HasContext_NoTrim(context) == Truthy(context)

\* context && context.trim()
HasContext(context) == Truthy(context) /\ trim(context) # <<>>

\* max_tokens of the Claude request
MaxTokens == 4096

\* mutant: an identifier outside the closed set gets the OpenAI list
getModelSuggestions_DefaultOpenAI(name) ==
  CASE name = "claude" -> <<CLAUDE37, CLAUDE35SONNET, CLAUDE35>>
    [] name = "gemini" -> <<GEMINI20, GEMINI20LITE, GEMINI15PRO>>
    [] OTHER -> <<GPT4O, GPT4OMINI, O1, O1MINI, O3MINI>>

\* getModelSuggestions(provider)
getModelSuggestions(name) ==
  CASE name = "openai" -> <<GPT4O, GPT4OMINI, O1, O1MINI, O3MINI>>
    [] name = "claude" -> <<CLAUDE37, CLAUDE35SONNET, CLAUDE35>>
    [] name = "gemini" -> <<GEMINI20, GEMINI20LITE, GEMINI15PRO>>
    [] OTHER -> <<>>

\* mutant: the test for the letter o looks at the model argument, not at
\* modelToUse
OpenAIRequest_GivenModelOnly(self, prompt, context, model) ==
  LET modelToUse == IF Truthy(model) THEN model ELSE getDefaultModel(self)
  IN [vendor |-> "openai", apiKey |-> self.apiKey, model |-> modelToUse,
      history |-> <<>>,
      messages |-> (IF HasContext(context)
                    THEN <<[role |-> "developer", content |-> context]>>
                    ELSE <<>>)
                   \o <<[role |-> "user", content |-> prompt]>>,
      max_tokens |-> 0,
      temperature |-> IF Truthy(model) /\ Head(model) = "o" THEN "omitted" ELSE "0.7"]

\* the request OpenAIProvider.transform passes to chat.completions.create
OpenAIRequest(self, prompt, context, model) ==
  LET modelToUse == IF Truthy(model) THEN model ELSE getDefaultModel(self)
  IN [vendor |-> "openai", apiKey |-> self.apiKey, model |-> modelToUse,
      history |-> <<>>,
      messages |-> (IF HasContext(context)
                    THEN <<[role |-> "developer", content |-> context]>>
                    ELSE <<>>)
                   \o <<[role |-> "user", content |-> prompt]>>,
      max_tokens |-> 0,
      temperature |-> IF Head(modelToUse) # "o" THEN "0.7" ELSE "omitted"]

\* the request ClaudeProvider.transform passes to messages.create
ClaudeRequest(self, prompt, context, model) ==
  LET content == IF HasContext(context)
                 THEN <<"<context>">> \o context \o <<"</context>">> \o <<"\n", "\n">> \o prompt
                 ELSE prompt
  IN [vendor |-> "claude", apiKey |-> self.apiKey,
      model |-> IF Truthy(model) THEN model ELSE getDefaultModel(self),
      history |-> <<>>,
      messages |-> <<[role |-> "user", content |-> content]>>,
      max_tokens |-> MaxTokens,
      temperature |-> "0.7"]

\* the chat GeminiProvider.transform starts and the message it sends
GeminiRequest(self, prompt, context, model) ==
  [vendor |-> "gemini", apiKey |-> self.apiKey,
   model |-> IF Truthy(model) THEN model ELSE getDefaultModel(self),
   history |-> IF HasContext(context)
               THEN <<[role |-> "user", content |-> <<"<context>">> \o context \o <<"</context>">>]>>
               ELSE <<>>,
   messages |-> <<[role |-> "user", content |-> prompt]>>,
   max_tokens |-> 0,
   temperature |-> "omitted"]

\* the vendor request a backend builds in transform
BuildRequest(self, prompt, context, model) ==
  CASE self.kind = "openai" -> OpenAIRequest(self, prompt, context, model)
    [] self.kind = "claude" -> ClaudeRequest(self, prompt, context, model)
    [] self.kind = "gemini" -> GeminiRequest(self, prompt, context, model)

\* response.choices[0]?.message?.content || null
OpenAIExtract(choices) ==
  IF choices = <<>> THEN NULL
  ELSE IF Truthy(choices[1]) THEN choices[1] ELSE NULL

\* the texts of the blocks of type text, in order
RECURSIVE TextBlocks(_)
TextBlocks(blocks) ==
  IF blocks = <<>> THEN <<>>
  ELSE (IF Head(blocks).type = "text" THEN <<Head(blocks).text>> ELSE <<>>)
       \o TextBlocks(Tail(blocks))

ClaudeExtract(blocks) ==
  IF Len(blocks) > 0
  THEN LET textContent == join(TextBlocks(blocks))
       IN IF textContent # <<>> THEN textContent ELSE NULL
  ELSE NULL

\* result.response.text() || null
GeminiExtract(text) == IF text # <<>> THEN text ELSE NULL

\* the value transform returns for a vendor response body
Extract(kind, body) ==
  CASE kind = "openai" -> OpenAIExtract(body)
    [] kind = "claude" -> ClaudeExtract(body)
    [] kind = "gemini" -> GeminiExtract(body)

\* what the backend's own catch block prints before rethrowing
BackendErrorLog(kind, error) ==
  CASE kind = "claude" /\ error.isError -> <<Log("red", "Claude API Error:", error.message)>>
    [] kind = "gemini" /\ error.isError -> <<Log("red", "Gemini API Error:", error.message)>>
    [] OTHER -> <<>>

\* ------------------------------------------------------- transform.ts
\* options.provider || config.defaultProvider || the empty string
RequestedProvider(options, config) ==
  IF options.provider # "" THEN options.provider ELSE config.defaultProvider

\* mutant: a name outside the three providers is replaced as well
NotConfigured_OrUnknown(providerName, config) ==
  \/ providerName \notin {"openai", "claude", "gemini"}
  \/ (providerName = "openai" /\ config.openaiApiKey = "")
  \/ (providerName = "claude" /\ config.claudeApiKey = "")
  \/ (providerName = "gemini" /\ config.geminiApiKey = "")

\* mutant: the openai clause of the earlier revision is missing
NotConfigured_NoOpenAIClause(providerName, config) ==
  \/ providerName = ""
  \/ (providerName = "claude" /\ config.claudeApiKey = "")
  \/ (providerName = "gemini" /\ config.geminiApiKey = "")

\* the condition under which the requested provider is replaced
NotConfigured(providerName, config) ==
  \/ providerName = ""
  \/ (providerName = "openai" /\ config.openaiApiKey = "")
  \/ (providerName = "claude" /\ config.claudeApiKey = "")
  \/ (providerName = "gemini" /\ config.geminiApiKey = "")

\* mutant: the first key of the configuration object that is set decides
FirstAvailable_KeyOrder(providerName, config) ==
  IF KeyOf(config, keyOrder[1]) # "" THEN keyOrder[1]
  ELSE IF KeyOf(config, keyOrder[2]) # "" THEN keyOrder[2]
  ELSE IF KeyOf(config, keyOrder[3]) # "" THEN keyOrder[3]
  ELSE providerName

\* mutant: the fallback order of the earlier revision, claude first
FirstAvailable_ClaudeFirst(providerName, config) ==
  IF config.claudeApiKey # "" THEN "claude"
  ELSE IF config.openaiApiKey # "" THEN "openai"
  ELSE IF config.geminiApiKey # "" THEN "gemini"
  ELSE providerName

\* the first provider that has an API key; the name is kept when none has
FirstAvailable(providerName, config) ==
  IF config.openaiApiKey # "" THEN "openai"
  ELSE IF config.claudeApiKey # "" THEN "claude"
  ELSE IF config.geminiApiKey # "" THEN "gemini"
  ELSE providerName

\* mutant: a configured default provider is used as it is
ResolveProviderName_TrustsDefault(options, config) ==
  LET requested == RequestedProvider(options, config)
  IN IF options.provider = "" /\ config.defaultProvider # ""
     THEN requested
     ELSE IF NotConfigured(requested, config)
          THEN FirstAvailable(requested, config)
          ELSE requested

\* the provider name transformCommand hands to createProvider
ResolveProviderName(options, config) ==
  LET requested == RequestedProvider(options, config)
  IN IF NotConfigured(requested, config)
     THEN FirstAvailable(requested, config)
     ELSE requested

\* mutant: the negation of the last key test is lost
NoApiKeys_LostNegation(config) ==
  config.openaiApiKey = "" /\ config.claudeApiKey = "" /\ config.geminiApiKey # ""

\* no API key at all
NoApiKeys(config) ==
  config.openaiApiKey = "" /\ config.claudeApiKey = "" /\ config.geminiApiKey = ""

\* options.quiet || options.raw
isQuietMode(options) == options.quiet \/ options.raw

\* mutant: only an undefined prompt counts as missing
PromptMissing_OnlyNull(text) == text = NULL

\* !promptText
PromptMissing(text) == ~Truthy(text)

\* mutant: only undefined counts as no result (result !== undefined)
HasResult_NotUndefined(r) == TRUE

\* if (result): the value counts as a result
HasResult(r) == Truthy(r)

\* mutant: JSON.parse stands after the try block, so its error escapes
loadConfig_ParseOutsideTry(state, content) ==
  CASE state = "ok" -> [threw |-> FALSE, config |-> content, err |-> <<>>]
    [] state = "missing" -> [threw |-> FALSE, config |-> EmptyConfig, err |-> <<>>]
    [] state = "corrupt" -> [threw |-> TRUE, config |-> EmptyConfig, err |-> <<>>]
    [] OTHER ->
         [threw |-> FALSE, config |-> EmptyConfig,
          err |-> <<Log("yellow", "Failed to load configuration file. Creating a new one.", <<>>)>>]

\* loadConfig(): the configuration in the file when the file exists and is
\* read and parsed; {} when it does not exist; {} and one printed line when
\* readFileSync or JSON.parse throws. A file that parses holds a Config.
loadConfig(state, content) ==
  CASE state = "ok" -> [threw |-> FALSE, config |-> content, err |-> <<>>]
    [] state = "missing" -> [threw |-> FALSE, config |-> EmptyConfig, err |-> <<>>]
    [] OTHER ->
         [threw |-> FALSE, config |-> EmptyConfig,
          err |-> <<Log("yellow", "Failed to load configuration file. Creating a new one.", <<>>)>>]

\* process.stdin before it is looked at
NoStdin == [isTTY |-> FALSE, data |-> <<>>]

\* the options object before the command is invoked
NoOptions ==
  [prompt |-> NULL, context |-> NULL, model |-> NoModel, provider |-> "",
   quiet |-> FALSE, raw |-> FALSE, beforeAfter |-> FALSE]

\* ------------------------------------------------------ the environment
\* what a vendor call can throw: Error objects and a value that is no Error
Errors ==
  {[isError |-> TRUE, message |-> <<"401 Incorrect API key provided">>],
   [isError |-> TRUE, message |-> <<"fetch failed">>],
   [isError |-> FALSE, message |-> <<"aborted">>]}
NoError == [isError |-> FALSE, message |-> <<>>]

\* texts a vendor can generate
ReplyTexts == {<<>>, <<"a">>}

SeqsUpTo(S, n) == UNION {[1..k -> S] : k \in 0..n}

\* content blocks of a Claude response
Blocks ==
  {[type |-> "text", text |-> t] : t \in ReplyTexts}
    \cup {[type |-> "tool_use", text |-> <<>>]}

\* the response bodies of a vendor, as far as transform reads them:
\* openai: the content of each choice; claude: the content blocks;
\* gemini: response.text()
Bodies(kind) ==
  CASE kind = "openai" -> SeqsUpTo(ReplyTexts \cup {NULL}, MaxBlocks)
    [] kind = "claude" -> SeqsUpTo(Blocks, MaxBlocks)
    [] kind = "gemini" -> ReplyTexts

NoResponse == [throws |-> FALSE, error |-> NoError, body |-> <<>>]

Responses(kind) ==
  {[throws |-> FALSE, error |-> NoError, body |-> b] : b \in Bodies(kind)}
    \cup {[throws |-> TRUE, error |-> e, body |-> <<>>] : e \in Errors}

\* --------------------------------------------------- model listing
\* most identifiers in the answer of a listing endpoint
MaxIds == 2

\* most runs of the setup command before a transform
MaxSetups == 2

\* the characters of model identifiers, in the order of their code units
CodeOrder ==
  <<"-", ".", "/", "0", "1", "2", "3", "4", "5", "6", "7", "8", "9", ":",
    "a", "b", "c", "d", "e", "f", "g", "h", "i", "j", "k", "l", "m", "n",
    "o", "p", "q", "r", "s", "t", "u", "v", "w", "x", "y", "z">>

CharCode(c) == CHOOSE i \in 1..Len(CodeOrder) : CodeOrder[i] = c

\* a < b for two strings, as Array.prototype.sort() without comparator orders
RECURSIVE LexLess(_, _)
LexLess(a, b) ==
  IF b = <<>> THEN FALSE
  ELSE IF a = <<>> THEN TRUE
  ELSE IF Head(a) = Head(b) THEN LexLess(Tail(a), Tail(b))
  ELSE CharCode(Head(a)) < CharCode(Head(b))

RECURSIVE InsertSorted(_, _)
InsertSorted(x, sorted) ==
  IF sorted = <<>> THEN <<x>>
  ELSE IF LexLess(x, Head(sorted)) THEN <<x>> \o sorted
  ELSE <<Head(sorted)>> \o InsertSorted(x, Tail(sorted))

\* Array.prototype.sort()
RECURSIVE sort(_)
sort(list) ==
  IF list = <<>> THEN <<>> ELSE InsertSorted(Head(list), sort(Tail(list)))

\* String.prototype.startsWith
startsWith(str, prefix) ==
  Len(str) >= Len(prefix) /\ SubSeq(str, 1, Len(prefix)) = prefix

\* String.prototype.replace(pattern, empty string): the first occurrence of
\* the pattern is removed
removeFirst(str, pattern) ==
  LET at == {i \in 1..(Len(str) + 1 - Len(pattern)) :
               SubSeq(str, i, i + Len(pattern) - 1) = pattern}
  IN IF at = {} THEN str
     ELSE LET i == CHOOSE k \in at : \A j \in at : k <= j
          IN SubSeq(str, 1, i - 1) \o SubSeq(str, i + Len(pattern), Len(str))

\* identifiers and prefixes, character by character
GPT4 == <<"g", "p", "t", "-", "4">>
O1ID == <<"o", "1">>
DALLE == <<"d", "a", "l", "l", "-", "e">>
CLAUDE3 == <<"c", "l", "a", "u", "d", "e", "-", "3">>
CLAUDE2 == <<"c", "l", "a", "u", "d", "e", "-", "2">>
TITAN == <<"t", "i", "t", "a", "n">>
MGEMINI2 == <<"m", "o", "d", "e", "l", "s", "/", "g", "e", "m", "i", "n", "i", "-", "2">>
MGEMINI1 == <<"m", "o", "d", "e", "l", "s", "/", "g", "e", "m", "i", "n", "i", "-", "1">>
MEMBED == <<"m", "o", "d", "e", "l", "s", "/", "e", "m", "b", "e", "d">>
PREFIX_GPT == <<"g", "p", "t", "-">>
PREFIX_GEMINI == <<"g", "e", "m", "i", "n", "i", "-">>
PREFIX_MODELS == <<"m", "o", "d", "e", "l", "s", "/">>

\* the identifiers a listing endpoint can return
ListedIds(kind) ==
  CASE kind = "openai" -> {GPT4, O1ID, DALLE}
    [] kind = "claude" -> {CLAUDE3, CLAUDE2, TITAN}
    [] kind = "gemini" -> {MGEMINI2, MGEMINI1, MEMBED}

\* the kinds of answer that are no well-formed 2xx answer: a non-2xx status,
\* a rejected fetch, a body without the expected list ("malformed"), a body
\* whose list is the one entry {} without identifier ("noid")
FailureKinds == {"status", "network", "malformed", "noid"}

\* what a listing request can end in
ListResponses(kind) ==
  {[kind |-> "ok", ids |-> l] : l \in SeqsUpTo(ListedIds(kind), MaxIds)}
    \cup {[kind |-> k, ids |-> <<>>] : k \in FailureKinds}

\* model.id of an entry without id
UNDEFINED == <<"undefined">>

NoListResponse == [kind |-> "none", ids |-> <<>>]

\* the message of the error the try block of a listing function catches
ListErrorMessage(vendor, resp) ==
  CASE resp.kind = "status" -> <<vendor, " API error: ", "401", " ", "Unauthorized">>
    [] resp.kind = "network" -> <<"fetch failed">>
    [] resp.kind = "malformed" -> <<"Cannot read properties of undefined (reading map)">>
    [] resp.kind = "noid" ->
         IF vendor = "Gemini"
         THEN <<"Cannot read properties of undefined (reading replace)">>
         ELSE <<"Cannot read properties of undefined (reading startsWith)">>

\* the filter of fetchOpenAIModels
OpenAIKept(id) == startsWith(id, PREFIX_GPT) \/ startsWith(id, <<"o">>)

\* the filter of fetchGeminiModels
GeminiKept(name) == startsWith(name, PREFIX_GEMINI)

\* mutant: the filter keeps the gpt- identifiers only
fetchOpenAIModels_GptOnly(resp) ==
  LET OnlyGpt(id) == startsWith(id, PREFIX_GPT)
  IN IF resp.kind = "ok"
     THEN [threw |-> FALSE, list |-> sort(SelectSeq(resp.ids, OnlyGpt)), err |-> <<>>]
     ELSE [threw |-> FALSE, list |-> <<>>,
           err |-> <<Log("red", "Error fetching OpenAI models:", ListErrorMessage("OpenAI", resp))>>]

\* fetchOpenAIModels: the list it returns and what it prints
fetchOpenAIModels(resp) ==
  IF resp.kind = "ok"
  THEN [threw |-> FALSE, list |-> sort(SelectSeq(resp.ids, OpenAIKept)), err |-> <<>>]
  ELSE [threw |-> FALSE, list |-> <<>>,
        err |-> <<Log("red", "Error fetching OpenAI models:", ListErrorMessage("OpenAI", resp))>>]

\* fetchClaudeModels: nothing is called on the identifiers, so that an
\* entry without id is listed as undefined
fetchClaudeModels(resp) ==
  IF resp.kind = "ok"
  THEN [threw |-> FALSE, list |-> sort(resp.ids), err |-> <<>>]
  ELSE IF resp.kind = "noid"
  THEN [threw |-> FALSE, list |-> <<UNDEFINED>>, err |-> <<>>]
  ELSE [threw |-> FALSE, list |-> <<>>,
        err |-> <<Log("red", "Error fetching Claude models:", ListErrorMessage("Claude", resp))>>]

\* fetchGeminiModels
fetchGeminiModels(resp) ==
  IF resp.kind = "ok"
  THEN [threw |-> FALSE,
        list |-> sort(SelectSeq([i \in 1..Len(resp.ids) |-> removeFirst(resp.ids[i], PREFIX_MODELS)],
                                GeminiKept)),
        err |-> <<>>]
  ELSE [threw |-> FALSE, list |-> <<>>,
        err |-> <<Log("red", "Error fetching Gemini models:", ListErrorMessage("Gemini", resp))>>]

\* the listing function fetchAvailableModels calls for a provider
fetchModels(kind, resp) ==
  CASE kind = "openai" -> fetchOpenAIModels(resp)
    [] kind = "claude" -> fetchClaudeModels(resp)
    [] kind = "gemini" -> fetchGeminiModels(resp)

\* a provider without entry in the result of fetchAvailableModels
NoEntry == <<NULL>>

\* ---------------------------------------------------------------- state
VARIABLES
  entry,        \* how the program is entered: "cli", "api" or "factory"
  argv,         \* what the caller gives (NULL / "" for an option not given)
  store,        \* the content of the configuration file
  pc,           \* the position of the invocation
  options,      \* transformCommand: the options object
  config,       \* transformCommand: const config
  promptText,   \* transformCommand: let promptText
  providerName, \* transformCommand: let providerName
  provider,     \* transformCommand: const provider
  model,        \* transformCommand: const model
  calls,        \* the calls of a backend transform, with their arguments
  requests,     \* the requests handed to a vendor SDK
  response,     \* the response of the vendor
  result,       \* the value transform returned
  thrown,       \* the value transform threw
  stdout,       \* console.log and process.stdout.write
  stderr,       \* console.error
  exits,        \* the codes process.exit was called with
  steps,        \* the steps of transformCommand that ran, in order
  outcome,      \* the terminal outcome of the invocation
  listState,    \* fetchAvailableModels: the state of each listing promise
  listResp,     \* what the listing endpoint of each provider answered
  listReqs,     \* the listing requests made to each provider
  available,    \* fetchAvailableModels: const result
  fileState,    \* the configuration file: "ok", "missing", "unreadable", "corrupt"
  setups,       \* the runs of the setup command so far
  suggestions,  \* what getModelSuggestions returned
  stdin         \* process.stdin as readFromStdin found it

vars ==
  <<entry, argv, store, pc, options, config, promptText, providerName,
    provider, model, calls, requests, response, result, thrown, stdout,
    stderr, exits, steps, outcome, keyOrder, listState, listResp, listReqs,
    available, fileState, setups, suggestions, stdin>>

\* ----------------------------------------------------------------- inputs
Keys ==
  [openaiApiKey : {"", "sk-o"}, claudeApiKey : {"", "sk-ant-c"},
   geminiApiKey : {"", "AIza-g"}]

MkConfig(keys, defaultProvider, defaultModels) ==
  [openaiApiKey |-> keys.openaiApiKey, claudeApiKey |-> keys.claudeApiKey,
   geminiApiKey |-> keys.geminiApiKey, defaultProvider |-> defaultProvider,
   defaultModels |-> defaultModels]

AllKeys == [openaiApiKey |-> "sk-o", claudeApiKey |-> "sk-ant-c", geminiApiKey |-> "AIza-g"]

SomeModels == [openai |-> O3MINI, claude |-> CLAUDE35, gemini |-> NoModel]

MkArgv(prompt, context, mdl, prov, quiet, raw, beforeAfter) ==
  [prompt |-> prompt, context |-> context, model |-> mdl, provider |-> prov,
   quiet |-> quiet, raw |-> raw, beforeAfter |-> beforeAfter]

\* the orders in which the three API keys can stand in the file
KeyOrders ==
  {o \in [1..3 -> ProviderIds] : \A p \in ProviderIds : \E i \in 1..3 : o[i] = p}

\* the order in which setup.ts declares them
FileOrder == <<"openai", "claude", "gemini">>

\* every credential set, default provider and provider option
InputsResolution ==
  /\ keyOrder = FileOrder
  /\ fileState = "ok"
  /\ entry = "cli"
  /\ store \in {MkConfig(k, d, NoModels) : k \in Keys, d \in ProviderIds \cup {""}}
  /\ argv \in {MkArgv(p, NULL, NoModel, r, q, FALSE, FALSE) :
                 p \in {NULL, <<"a">>},
                 r \in ProviderIds \cup {"", "mistral"},
                 q \in BOOLEAN}

\* every prompt and context, for each backend
InputsText ==
  /\ keyOrder = FileOrder
  /\ fileState = "ok"
  /\ entry \in {"cli", "api"}
  /\ store = MkConfig(AllKeys, "", NoModels)
  /\ argv \in {MkArgv(p, c, NoModel, r, FALSE, FALSE, FALSE) :
                 p \in Texts \cup {NULL}, c \in Texts \cup {NULL}, r \in ProviderIds}

\* every presentation mode and model choice, for each backend
InputsMode ==
  /\ keyOrder = FileOrder
  /\ fileState = "ok"
  /\ entry = "api"
  /\ store \in {MkConfig(AllKeys, "", m) : m \in {NoModels, SomeModels}}
  /\ argv \in {MkArgv(<<"a">>, NULL, m, r, q, w, b) :
                 m \in {NoModel, GPT4OMINI, O1}, r \in ProviderIds,
                 q \in BOOLEAN, w \in BOOLEAN, b \in BOOLEAN}

\* createProvider and transform used directly
InputsFactory ==
  /\ keyOrder = FileOrder
  /\ fileState = "ok"
  /\ entry = "factory"
  /\ store \in {MkConfig(k, "", m) : k \in Keys, m \in {NoModels, SomeModels}}
  /\ argv \in {MkArgv(<<"a">>, c, m, r, FALSE, FALSE, FALSE) :
                 c \in Texts \cup {NULL}, m \in {NoModel, O1},
                 r \in ProviderIds \cup {"", "mistral"}}

\* every order of the keys in the file, without provider option or default
InputsKeyOrder ==
  /\ keyOrder \in KeyOrders
  /\ fileState = "ok"
  /\ entry = "cli"
  /\ store \in {MkConfig(k, "", NoModels) : k \in Keys}
  /\ argv = MkArgv(<<"a">>, NULL, NoModel, "", FALSE, FALSE, FALSE)

\* fetchAvailableModels(config) for every credential set
InputsModels ==
  /\ keyOrder = FileOrder
  /\ fileState = "ok"
  /\ entry = "models"
  /\ store \in {MkConfig(k, "", NoModels) : k \in Keys}
  /\ argv = MkArgv(NULL, NULL, NoModel, "", FALSE, FALSE, FALSE)

\* a configuration file that is missing, cannot be read or cannot be parsed
InputsFile ==
  /\ keyOrder = FileOrder
  /\ entry = "cli"
  /\ \/ fileState \in {"missing", "corrupt"} /\ store = EmptyConfig
     \/ fileState = "unreadable" /\ store = MkConfig(AllKeys, "claude", SomeModels)
  /\ argv \in {MkArgv(<<"a">>, NULL, NoModel, r, q, FALSE, FALSE) :
                 r \in {"", "claude"}, q \in BOOLEAN}

\* runs of the setup command on any set of keys, without default provider
\* or with claude (the runs choose the others), then a transform
InputsSession ==
  /\ keyOrder = FileOrder
  /\ entry = "session"
  /\ \/ /\ fileState = "ok"
        /\ store \in {MkConfig(k, d, NoModels) : k \in Keys, d \in {"", "claude"}}
     \/ fileState = "missing" /\ store = EmptyConfig
  /\ argv \in {MkArgv(<<"a">>, NULL, NoModel, r, FALSE, FALSE, FALSE) : r \in {"", "gemini"}}

\* a model option together with a provider option, for every credential set
InputsOverride ==
  /\ keyOrder = FileOrder
  /\ fileState = "ok"
  /\ entry = "api"
  /\ store \in {MkConfig(k, "", SomeModels) : k \in Keys}
  /\ argv \in {MkArgv(<<"a">>, NULL, m, r, FALSE, FALSE, FALSE) :
                 m \in {NoModel, CLAUDE35SONNET}, r \in ProviderIds}

\* getModelSuggestions called with every identifier
InputsSuggestions ==
  /\ keyOrder = FileOrder
  /\ fileState = "ok"
  /\ entry = "suggestions"
  /\ store \in {EmptyConfig, MkConfig(AllKeys, "", NoModels)}
  /\ argv \in {MkArgv(NULL, NULL, NoModel, r, FALSE, FALSE, FALSE) :
                 r \in ProviderIds \cup {"", "mistral", "OpenAI"}}

Init ==
  /\ (InputsResolution \/ InputsText \/ InputsMode \/ InputsFactory
        \/ InputsKeyOrder \/ InputsModels \/ InputsSuggestions \/ InputsFile
        \/ InputsSession \/ InputsOverride)
  /\ listState = [p \in ProviderIds |-> "idle"]
  /\ listResp = [p \in ProviderIds |-> NoListResponse]
  /\ listReqs = [p \in ProviderIds |-> 0]
  /\ available = [p \in ProviderIds |-> NoEntry]
  /\ setups = <<>>
  /\ suggestions = NoEntry
  /\ stdin = NoStdin
  /\ pc = "argv"
  /\ options = NoOptions
  /\ config = EmptyConfig
  /\ promptText = <<>>
  /\ providerName = ""
  /\ provider = NoProvider
  /\ model = NoModel
  /\ calls = <<>>
  /\ requests = <<>>
  /\ response = NoResponse
  /\ result = NULL
  /\ thrown = NoError
  /\ stdout = <<>>
  /\ stderr = <<>>
  /\ exits = <<>>
  /\ steps = <<>>
  /\ outcome = "none"

\* ---------------------------------------------------------------- actions
\* index.ts: commander parses the command line and calls transformCommand.
\* --context has a default value, --provider defaults to the empty string,
\* and there is no option that sets beforeAfter.
ParseArgs ==
  /\ pc = "argv" /\ entry \in {"cli", "session"}
  /\ options' = [argv EXCEPT
                   !.context = IF argv.context = NULL THEN DefaultContext ELSE argv.context,
                   !.beforeAfter = FALSE]
  /\ pc' = "start"
  /\ UNCHANGED <<entry, argv, store, keyOrder, fileState, setups, suggestions, stdin, listState, listResp, listReqs, available, config, promptText, providerName, provider,
                 model, calls, requests, response, result, thrown, stdout,
                 stderr, exits, steps, outcome>>

\* transformCommand(options) called by another module with its own options
CallTransformCommand ==
  /\ pc = "argv" /\ entry = "api"
  /\ options' = argv
  /\ pc' = "start"
  /\ UNCHANGED <<entry, argv, store, keyOrder, fileState, setups, suggestions, stdin, listState, listResp, listReqs, available, config, promptText, providerName, provider,
                 model, calls, requests, response, result, thrown, stdout,
                 stderr, exits, steps, outcome>>

\* transformCommand: load the configuration, check that a key is configured
CheckApiKeys ==
  /\ pc = "start"
  /\ LET loaded == loadConfig(fileState, store)
     IN IF loaded.threw
        THEN /\ pc' = "crashed"
             /\ UNCHANGED <<config, steps, stderr, exits, outcome>>
        ELSE /\ config' = loaded.config
             /\ steps' = Append(steps, "credentialCheck")
             /\ IF NoApiKeys(config')
                THEN /\ stderr' = stderr \o loaded.err \o
                                    <<Log("red", "No API keys configured. Run airfine setup to configure.", <<>>)>>
                     /\ exits' = Append(exits, 1)
                     /\ outcome' = "ConfigurationError"
                     /\ pc' = "exited"
                ELSE /\ stderr' = stderr \o loaded.err
                     /\ pc' = "prompt"
                     /\ UNCHANGED <<exits, outcome>>
  /\ UNCHANGED <<entry, argv, store, keyOrder, fileState, setups, suggestions, stdin, listState, listResp, listReqs, available, options, promptText, providerName, provider,
                 model, calls, requests, response, result, thrown, stdout>>

\* mutant: the prompt of the option is trimmed as the piped data is
ReadPrompt_TrimsOption ==
  /\ pc = "prompt"
  /\ IF Truthy(options.prompt) /\ Truthy(trim(options.prompt))
     THEN /\ promptText' = trim(options.prompt)
          /\ pc' = "checkPrompt"
          /\ UNCHANGED stdout
     ELSE /\ promptText' = <<>>
          /\ stdout' = IF isQuietMode(options) THEN stdout
                       ELSE Append(stdout, Log("blue", "Reading prompt from stdin...", <<>>))
          /\ pc' = "stdin"
  /\ UNCHANGED <<entry, argv, store, keyOrder, fileState, setups, suggestions,
                 stdin, listState, listResp, listReqs, available, options,
                 config, providerName, provider, model, calls, requests,
                 response, result, thrown, stderr, exits, steps, outcome>>

\* transformCommand: take the prompt of the option, or start to read stdin
ReadPrompt ==
  /\ pc = "prompt"
  /\ IF Truthy(options.prompt)
     THEN /\ promptText' = options.prompt
          /\ pc' = "checkPrompt"
          /\ UNCHANGED stdout
     ELSE /\ promptText' = <<>>
          /\ stdout' = IF isQuietMode(options) THEN stdout
                       ELSE Append(stdout, Log("blue", "Reading prompt from stdin...", <<>>))
          /\ pc' = "stdin"
  /\ UNCHANGED <<entry, argv, store, keyOrder, fileState, setups, suggestions, stdin, listState, listResp, listReqs, available, options, config, providerName, provider,
                 model, calls, requests, response, result, thrown, stderr,
                 exits, steps, outcome>>

\* mutant: the piped data is resolved as it is
ReadFromStdin_NoTrim ==
  /\ pc = "stdin"
  /\ \E isTTY \in BOOLEAN, data \in Texts :
       /\ isTTY => data = <<>>
       /\ stdin' = [isTTY |-> isTTY, data |-> data]
       /\ promptText' = IF isTTY THEN <<>> ELSE data
  /\ steps' = Append(steps, "readStdin")
  /\ pc' = "checkPrompt"
  /\ UNCHANGED <<entry, argv, store, keyOrder, fileState, setups, suggestions,
                 listState, listResp, listReqs, available, options, config,
                 providerName, provider, model, calls, requests, response,
                 result, thrown, stdout, stderr, exits, outcome>>

\* readFromStdin: the empty string on a terminal, else the piped data trimmed
ReadFromStdin ==
  /\ pc = "stdin"
  /\ \E isTTY \in BOOLEAN, data \in Texts :
       /\ isTTY => data = <<>>
       /\ stdin' = [isTTY |-> isTTY, data |-> data]
       /\ promptText' = IF isTTY THEN <<>> ELSE trim(data)
  /\ steps' = Append(steps, "readStdin")
  /\ pc' = "checkPrompt"
  /\ UNCHANGED <<entry, argv, store, keyOrder, fileState, setups, suggestions,
                 listState, listResp, listReqs, available, options, config,
                 providerName, provider, model, calls, requests, response,
                 result, thrown, stdout, stderr, exits, outcome>>

\* transformCommand: check that there is a prompt
CheckPrompt ==
  /\ pc = "checkPrompt"
  /\ steps' = Append(steps, "promptCheck")
  /\ IF PromptMissing(promptText)
     THEN /\ stderr' = Append(stderr, Log("red", "No prompt specified. Use the --prompt option or pipe content to stdin.", <<>>))
          /\ exits' = Append(exits, 1)
          /\ outcome' = "InvalidInputError"
          /\ pc' = "exited"
     ELSE /\ pc' = "resolve"
          /\ UNCHANGED <<stderr, exits, outcome>>
  /\ UNCHANGED <<entry, argv, store, keyOrder, fileState, setups, suggestions, stdin, listState, listResp, listReqs, available, options, config, promptText, providerName,
                 provider, model, calls, requests, response, result, thrown,
                 stdout>>

\* mutant: the provider that was resolved is saved as the default provider
ResolveProvider_SavesDefault ==
  /\ pc = "resolve"
  /\ providerName' = ResolveProviderName(options, config)
  /\ store' = [store EXCEPT !.defaultProvider = providerName']
  /\ steps' = Append(steps, "resolve")
  /\ pc' = "create"
  /\ UNCHANGED <<entry, argv, keyOrder, fileState, setups, suggestions, stdin,
                 listState, listResp, listReqs, available, options, config,
                 promptText, provider, model, calls, requests, response,
                 result, thrown, stdout, stderr, exits, outcome>>

\* transformCommand: determine which provider to use
ResolveProvider ==
  /\ pc = "resolve"
  /\ providerName' = ResolveProviderName(options, config)
  /\ steps' = Append(steps, "resolve")
  /\ pc' = "create"
  /\ UNCHANGED <<entry, argv, store, keyOrder, fileState, setups, suggestions, stdin, listState, listResp, listReqs, available, options, config, promptText, provider,
                 model, calls, requests, response, result, thrown, stdout,
                 stderr, exits, outcome>>

\* transformCommand: create the provider, exit when there is none
CreateProvider ==
  /\ pc = "create"
  /\ LET made == createProvider(providerName, config)
     IN /\ provider' = made.provider
        /\ IF made.provider = NoProvider
           THEN /\ stderr' = stderr \o made.err
                /\ exits' = Append(exits, 1)
                /\ outcome' = "ConfigurationError"
                /\ pc' = "exited"
           ELSE /\ pc' = "call"
                /\ UNCHANGED <<stderr, exits, outcome>>
  /\ steps' = Append(steps, "createProvider")
  /\ UNCHANGED <<entry, argv, store, keyOrder, fileState, setups, suggestions, stdin, listState, listResp, listReqs, available, options, config, promptText, providerName,
                 model, calls, requests, response, result, thrown, stdout>>

\* one call of provider.transform: the backend builds the vendor request and
\* hands it to the vendor SDK
Transform(self, prompt, context, mdl) ==
  /\ calls' = Append(calls, [kind |-> self.kind, prompt |-> prompt,
                             context |-> context, model |-> mdl])
  /\ requests' = Append(requests, BuildRequest(self, prompt, context, mdl))

\* mutant: the model option is dropped when the provider was replaced
CallTransform_DropsModelOnFallback ==
  /\ pc = "call"
  /\ model' = IF Truthy(options.model) /\ (options.provider = "" \/ options.provider = providerName)
              THEN options.model ELSE getDefaultModel(provider)
  /\ stdout' = IF isQuietMode(options) THEN stdout
               ELSE Append(stdout, Log("blue", "Starting text transformation using", <<providerName>> \o model'))
  /\ Transform(provider, promptText,
               IF Truthy(options.context) THEN options.context ELSE NULL, model')
  /\ steps' = Append(steps, "transform")
  /\ pc' = "awaitVendor"
  /\ UNCHANGED <<entry, argv, store, keyOrder, fileState, setups, suggestions,
                 stdin, listState, listResp, listReqs, available, options,
                 config, promptText, providerName, provider, response, result,
                 thrown, stderr, exits, outcome>>

\* transformCommand: choose the model, log, call provider.transform
CallTransform ==
  /\ pc = "call"
  /\ model' = IF Truthy(options.model) THEN options.model ELSE getDefaultModel(provider)
  /\ stdout' = IF isQuietMode(options) THEN stdout
               ELSE Append(stdout, Log("blue", "Starting text transformation using", <<providerName>> \o model'))
  /\ Transform(provider, promptText,
               IF Truthy(options.context) THEN options.context ELSE NULL, model')
  /\ steps' = Append(steps, "transform")
  /\ pc' = "awaitVendor"
  /\ UNCHANGED <<entry, argv, store, keyOrder, fileState, setups, suggestions, stdin, listState, listResp, listReqs, available, options, config, promptText, providerName,
                 provider, response, result, thrown, stderr, exits, outcome>>

\* mutant: the call is given up after a while without an answer
VendorRespond_TimesOut ==
  \/ /\ pc = "awaitVendor" /\ entry # "factory"
     /\ thrown' = [isError |-> TRUE, message |-> <<"timeout">>]
     /\ stderr' = Append(stderr, Log("red", "Error:", <<"timeout">>))
     /\ exits' = Append(exits, 1)
     /\ outcome' = "Failure"
     /\ pc' = "exited"
     /\ UNCHANGED <<entry, argv, store, keyOrder, fileState, setups, suggestions,
                    stdin, listState, listResp, listReqs, available, options,
                    config, promptText, providerName, provider, model, calls,
                    requests, response, result, stdout, steps>>
  \/ /\ pc = "awaitVendor"
     /\ \E r \in Responses(provider.kind) :
          /\ response' = r
          /\ IF r.throws
             THEN /\ thrown' = r.error
                  /\ result' = NULL
                  /\ stderr' = stderr \o BackendErrorLog(provider.kind, r.error)
             ELSE /\ result' = Extract(provider.kind, r.body)
                  /\ UNCHANGED <<thrown, stderr>>
     /\ pc' = IF entry = "factory" THEN "returned" ELSE "report"
     /\ UNCHANGED <<entry, argv, store, keyOrder, fileState, setups, suggestions, stdin, listState, listResp, listReqs, available, options, config, promptText, providerName,
                    provider, model, calls, requests, stdout, exits, steps, outcome>>

\* the vendor answers or the call fails; transform returns or throws
VendorRespond ==
  /\ pc = "awaitVendor"
  /\ \E r \in Responses(provider.kind) :
       /\ response' = r
       /\ IF r.throws
          THEN /\ thrown' = r.error
               /\ result' = NULL
               /\ stderr' = stderr \o BackendErrorLog(provider.kind, r.error)
          ELSE /\ result' = Extract(provider.kind, r.body)
               /\ UNCHANGED <<thrown, stderr>>
  /\ pc' = IF entry = "factory" THEN "returned" ELSE "report"
  /\ UNCHANGED <<entry, argv, store, keyOrder, fileState, setups, suggestions, stdin, listState, listResp, listReqs, available, options, config, promptText, providerName,
                 provider, model, calls, requests, stdout, exits, steps, outcome>>

\* what transformCommand prints for a result
ResultOutput(opts, prompt, res) ==
  IF isQuietMode(opts) THEN <<Write(res)>>
  ELSE IF opts.beforeAfter
       THEN <<Log("blue", "\n=== Before ===", <<>>), Log("", "", prompt),
              Log("green", "\n=== After ===", <<>>), Log("", "", res),
              Log("", "", <<>>)>>
       ELSE <<Log("", "", <<"\n">> \o res \o <<"\n">>)>>

\* mutant: the catch block prints a fixed text instead of error.message
CatchOutput_NoMessage(opts, error) ==
  IF isQuietMode(opts) THEN <<>>
  ELSE <<Log("red", "Unknown error occurred", <<>>)>>

\* what the catch block of transformCommand prints
CatchOutput(opts, error) ==
  IF isQuietMode(opts) THEN <<>>
  ELSE IF error.isError
       THEN <<Log("red", "Error:", error.message)>>
       ELSE <<Log("red", "Unknown error occurred", <<>>)>>

\* mutant: a failed call is retried once before the failure is reported
Report_RetryOnce ==
  /\ pc = "report"
  /\ IF response.throws /\ Len(calls) < 2
     THEN /\ pc' = "call"
          /\ UNCHANGED <<stdout, stderr, exits, outcome>>
     ELSE IF response.throws
     THEN /\ stderr' = stderr \o CatchOutput(options, thrown)
          /\ exits' = Append(exits, 1)
          /\ outcome' = "Failure"
          /\ pc' = "exited"
          /\ UNCHANGED stdout
     ELSE IF HasResult(result)
          THEN /\ stdout' = stdout \o ResultOutput(options, promptText, result)
               /\ outcome' = "Success"
               /\ pc' = "done"
               /\ UNCHANGED <<stderr, exits>>
          ELSE /\ stderr' = IF isQuietMode(options) THEN stderr
                            ELSE Append(stderr, Log("yellow", "Empty response from API.", <<>>))
               /\ exits' = Append(exits, 1)
               /\ outcome' = "EmptyResult"
               /\ pc' = "exited"
               /\ UNCHANGED stdout
  /\ UNCHANGED <<entry, argv, store, keyOrder, fileState, setups, suggestions, stdin, listState, listResp, listReqs, available, options, config, promptText, providerName,
                 provider, model, calls, requests, response, result, thrown,
                 steps>>

\* mutant: an empty response is reported without process.exit
Report_EmptyDoesNotExit ==
  /\ pc = "report"
  /\ IF response.throws
     THEN /\ stderr' = stderr \o CatchOutput(options, thrown)
          /\ exits' = Append(exits, 1)
          /\ outcome' = "Failure"
          /\ pc' = "exited"
          /\ UNCHANGED stdout
     ELSE IF HasResult(result)
          THEN /\ stdout' = stdout \o ResultOutput(options, promptText, result)
               /\ outcome' = "Success"
               /\ pc' = "done"
               /\ UNCHANGED <<stderr, exits>>
          ELSE /\ stderr' = IF isQuietMode(options) THEN stderr
                            ELSE Append(stderr, Log("yellow", "Empty response from API.", <<>>))
               /\ outcome' = "EmptyResult"
               /\ pc' = "done"
               /\ UNCHANGED <<stdout, exits>>
  /\ UNCHANGED <<entry, argv, store, keyOrder, fileState, setups, suggestions,
                 stdin, listState, listResp, listReqs, available, options,
                 config, promptText, providerName, provider, model, calls,
                 requests, response, result, thrown, steps>>

\* transformCommand: print the result, or report the empty response or the
\* error
Report ==
  /\ pc = "report"
  /\ IF response.throws
     THEN /\ stderr' = stderr \o CatchOutput(options, thrown)
          /\ exits' = Append(exits, 1)
          /\ outcome' = "Failure"
          /\ pc' = "exited"
          /\ UNCHANGED stdout
     ELSE IF HasResult(result)
          THEN /\ stdout' = stdout \o ResultOutput(options, promptText, result)
               /\ outcome' = "Success"
               /\ pc' = "done"
               /\ UNCHANGED <<stderr, exits>>
          ELSE /\ stderr' = IF isQuietMode(options) THEN stderr
                            ELSE Append(stderr, Log("yellow", "Empty response from API.", <<>>))
               /\ exits' = Append(exits, 1)
               /\ outcome' = "EmptyResult"
               /\ pc' = "exited"
               /\ UNCHANGED stdout
  /\ UNCHANGED <<entry, argv, store, keyOrder, fileState, setups, suggestions, stdin, listState, listResp, listReqs, available, options, config, promptText, providerName,
                 provider, model, calls, requests, response, result, thrown,
                 steps>>

\* createProvider(name, config) called directly
FactoryCreate ==
  /\ pc = "argv" /\ entry = "factory"
  /\ config' = store
  /\ providerName' = argv.provider
  /\ LET made == createProvider(argv.provider, store)
     IN /\ provider' = made.provider
        /\ stderr' = stderr \o made.err
        /\ pc' = IF made.provider = NoProvider THEN "returned" ELSE "factoryCall"
  /\ UNCHANGED <<entry, argv, store, keyOrder, fileState, setups, suggestions, stdin, listState, listResp, listReqs, available, options, promptText, model, calls,
                 requests, response, result, thrown, stdout, exits, steps,
                 outcome>>

\* transform called directly on the backend createProvider returned
FactoryTransform ==
  /\ pc = "factoryCall"
  /\ Transform(provider, argv.prompt, argv.context, argv.model)
  /\ pc' = "awaitVendor"
  /\ UNCHANGED <<entry, argv, store, keyOrder, fileState, setups, suggestions, stdin, listState, listResp, listReqs, available, options, config, promptText, providerName,
                 provider, model, response, result, thrown, stdout, stderr,
                 exits, steps, outcome>>

\* fetchAvailableModels: one listing call per provider that has a key; each
\* call runs up to its fetch
FetchAvailableModels ==
  /\ pc = "argv" /\ entry = "models"
  /\ config' = store
  /\ listState' = [p \in ProviderIds |->
                     IF KeyOf(config', p) # "" THEN "pending" ELSE "idle"]
  /\ listReqs' = [p \in ProviderIds |->
                    IF KeyOf(config', p) # "" THEN listReqs[p] + 1 ELSE listReqs[p]]
  /\ pc' = "joining"
  /\ UNCHANGED <<entry, argv, store, keyOrder, fileState, setups, suggestions, stdin, options, promptText, providerName,
                 provider, model, calls, requests, response, result, thrown,
                 stdout, stderr, exits, steps, outcome, listResp, available>>

\* the listing endpoint of one provider answers or fails; the listing
\* function returns its list and the then-callback stores it in result
ListingSettles(p) ==
  /\ pc = "joining" /\ listState[p] = "pending"
  /\ \E r \in ListResponses(p) :
       LET out == fetchModels(p, r)
       IN /\ listResp' = [listResp EXCEPT ![p] = r]
          /\ stderr' = stderr \o out.err
          /\ IF out.threw
             THEN /\ listState' = [listState EXCEPT ![p] = "rejected"]
                  /\ UNCHANGED available
             ELSE /\ listState' = [listState EXCEPT ![p] = "done"]
                  /\ available' = [available EXCEPT ![p] = out.list]
  /\ UNCHANGED <<entry, argv, store, keyOrder, fileState, setups, suggestions, stdin, pc, options, config, promptText,
                 providerName, provider, model, calls, requests, response,
                 result, thrown, stdout, exits, steps, outcome, listReqs>>

\* mutant: the result is returned without awaiting the listings
BatchSettles_NoAwait ==
  /\ pc = "joining"
  /\ pc' = "returned"
  /\ UNCHANGED <<entry, argv, store, keyOrder, fileState, setups, suggestions, stdin, options, config, promptText,
                 providerName, provider, model, calls, requests, response,
                 result, thrown, stdout, stderr, exits, steps, outcome,
                 listState, listResp, listReqs, available>>

\* one run of setupCommand: the configuration is loaded, the user answers,
\* the configuration is saved
SetupCommand ==
  /\ pc = "argv" /\ entry = "session"
  /\ Len(setups) < MaxSetups
  /\ LET currentConfig == loadConfig(fileState, store).config
     IN \E choice \in SetupChoices, name \in ProviderIds, typed \in BOOLEAN :
          /\ choice \in ProviderIds => (name = choice /\ typed)
          /\ choice = "default" => typed
          /\ choice = "defaultModels" => name = "openai"
          /\ LET apiKey == TypedKey[name]
                 saved == CASE choice = "default" -> SetDefaultProvider(currentConfig, name)
                            [] choice = "defaultModels" -> SetDefaultModels(currentConfig, typed)
                            [] OTHER -> SaveKey(currentConfig, name, apiKey)
             IN /\ store' = saved
                /\ setups' = Append(setups, [choice |-> choice, name |-> name,
                                             before |-> currentConfig, after |-> saved])
  /\ fileState' = "ok"
  /\ UNCHANGED <<entry, argv, keyOrder, pc, suggestions, stdin, listState, listResp,
                 listReqs, available, options, config, promptText,
                 providerName, provider, model, calls, requests, response,
                 result, thrown, stdout, stderr, exits, steps, outcome>>

\* a call of getModelSuggestions
GetModelSuggestions ==
  /\ pc = "argv" /\ entry = "suggestions"
  /\ suggestions' = getModelSuggestions(argv.provider)
  /\ pc' = "returned"
  /\ UNCHANGED <<entry, argv, store, keyOrder, fileState, setups, stdin, listState,
                 listResp, listReqs, available, options, config, promptText,
                 providerName, provider, model, calls, requests, response,
                 result, thrown, stdout, stderr, exits, steps, outcome>>

\* await Promise.all(promises); return result
BatchSettles ==
  /\ pc = "joining"
  /\ IF \E p \in ProviderIds : listState[p] = "rejected"
     THEN pc' = "rejected"
     ELSE /\ \A p \in ProviderIds : listState[p] # "pending"
          /\ pc' = "returned"
  /\ UNCHANGED <<entry, argv, store, keyOrder, fileState, setups, suggestions, stdin, options, config, promptText,
                 providerName, provider, model, calls, requests, response,
                 result, thrown, stdout, stderr, exits, steps, outcome,
                 listState, listResp, listReqs, available>>

Next ==
  \/ SetupCommand
  \/ GetModelSuggestions
  \/ FetchAvailableModels
  \/ \E p \in ProviderIds : ListingSettles(p)
  \/ BatchSettles
  \/ ParseArgs
  \/ CallTransformCommand
  \/ CheckApiKeys
  \/ ReadPrompt
  \/ ReadFromStdin
  \/ CheckPrompt
  \/ ResolveProvider
  \/ CreateProvider
  \/ CallTransform
  \/ VendorRespond
  \/ Report
  \/ FactoryCreate
  \/ FactoryTransform

Spec == Init /\ [][Next]_vars

\* the steps of one transform invocation
TransformStep ==
  \/ ParseArgs
  \/ CallTransformCommand
  \/ CheckApiKeys
  \/ ReadPrompt
  \/ ReadFromStdin
  \/ CheckPrompt
  \/ ResolveProvider
  \/ CreateProvider
  \/ CallTransform
  \/ VendorRespond
  \/ Report

\* the invocation goes on while it can: the event loop runs what is ready,
\* piped stdin ends, and the vendor call returns or throws
LiveSpec == Init /\ [][Next]_vars /\ WF_vars(TransformStep)

\* ------------------------------------------------------------ type check
TypeOK ==
  /\ pc \in {"argv", "start", "prompt", "stdin", "checkPrompt", "resolve",
             "create", "call", "awaitVendor", "report", "factoryCall",
             "returned", "done", "exited", "joining", "rejected", "crashed"}
  /\ fileState \in {"ok", "missing", "unreadable", "corrupt"}
  /\ outcome \in {"none", "ConfigurationError", "InvalidInputError",
                  "Success", "EmptyResult", "Failure"}
  /\ Len(calls) = Len(requests)

\* ------------------------------------------------- vocabulary of claims
\* a step of transformCommand has run
Ran(step) == \E i \in 1..Len(steps) : steps[i] = step

\* the invocation goes through transformCommand
ViaCommand == entry \in {"cli", "api", "session"}

\* the provider option is absent or names one of the three providers
RecognizedOverride == options.provider \in ProviderIds \cup {""}

\* the fixed priority order among the providers
PriorityOrder == <<"openai", "claude", "gemini">>

\* the first provider of the priority order that is in S (S not empty)
FirstInOrder(S) ==
  PriorityOrder[CHOOSE i \in 1..3 :
                  /\ PriorityOrder[i] \in S
                  /\ \A j \in 1..(i - 1) : PriorityOrder[j] \notin S]

\* a context that is absent, empty or made of white space only
Blank(c) == c = NULL \/ \A i \in 1..Len(c) : c[i] \in {" ", "\n", "\t"}

\* the number of lines of a stream that have the label
Labelled(stream, label) == {i \in 1..Len(stream) : stream[i].label = label}

\* C1 as claimed: the provider handed to createProvider is the override when
\* it is credentialed, else the configured default when it is credentialed
\* (also when an uncredentialed override was given), else the first
\* credentialed provider of the priority order.
C1_ThreeStepPrecedence ==
  (ViaCommand /\ Ran("resolve") /\ RecognizedOverride
     /\ Credentialed(config) # {}) =>
    LET cred == Credentialed(config)
    IN providerName =
         IF options.provider \in cred THEN options.provider
         ELSE IF config.defaultProvider \in cred THEN config.defaultProvider
         ELSE FirstInOrder(cred)

\* C1 amended: the override is used when it is credentialed; the configured
\* default is used when NO override is given and the default is credentialed;
\* in every other case (an uncredentialed override included, whatever the
\* default) the first credentialed provider of the order openai, claude,
\* gemini is used.
C1_OverrideSkipsDefault ==
  (ViaCommand /\ Ran("resolve") /\ RecognizedOverride
     /\ Credentialed(config) # {}) =>
    LET cred == Credentialed(config)
    IN providerName =
         IF options.provider \in cred THEN options.provider
         ELSE IF options.provider = "" /\ config.defaultProvider \in cred
              THEN config.defaultProvider
              ELSE FirstInOrder(cred)

\* an uncredentialed override with a credentialed default, which is not used
C1_Witness ==
  /\ ViaCommand /\ Ran("resolve")
  /\ options.provider \in ProviderIds \ Credentialed(config)
  /\ config.defaultProvider \in Credentialed(config)
  /\ providerName # config.defaultProvider

\* C2: with exactly one credentialed provider, resolution yields that provider
\* for every recognized override and every configured default, and
\* createProvider then returns its backend.
C2_SingleCredentialWins ==
  (ViaCommand /\ Ran("resolve") /\ RecognizedOverride
     /\ Cardinality(Credentialed(config)) = 1) =>
    /\ Credentialed(config) = {providerName}
    /\ Ran("createProvider") => provider.kind = providerName

\* override openai with only the claude key resolves to claude
C2_Witness ==
  /\ ViaCommand /\ Ran("createProvider")
  /\ options.provider = "openai"
  /\ Credentialed(config) = {"claude"}
  /\ provider.kind = "claude"

\* createProvider has been called
Created == (entry = "factory" /\ pc # "argv") \/ Ran("createProvider")

\* the diagnostics of createProvider
FactoryDiagnostics ==
  {"OpenAI API key not found. Run airfine setup to configure.",
   "Claude API key not found. Run airfine setup to configure.",
   "Gemini API key not found. Run airfine setup to configure.",
   "Unknown provider: "}

\* C3: createProvider returns a backend exactly when the identifier is one of
\* the three and its credential is present; the backend is of that provider
\* and holds that credential; when it returns null a diagnostic was printed.
C3_BackendIffCredential ==
  Created =>
    /\ provider # NoProvider <=>
         (providerName \in ProviderIds /\ KeyOf(config, providerName) # "")
    /\ provider # NoProvider =>
         (provider.kind = providerName /\ provider.apiKey = KeyOf(config, providerName))
    /\ provider = NoProvider =>
         (stderr # <<>> /\ stderr[Len(stderr)].label \in FactoryDiagnostics)

\* createProvider called for a provider of the closed set without credential
C3_Witness ==
  /\ entry = "factory" /\ pc = "returned"
  /\ providerName = "claude" /\ config.claudeApiKey = "" /\ config.openaiApiKey # ""
  /\ provider = NoProvider
  /\ Len(stderr) = 1

\* C4: an invocation with an empty prompt ends with the invalid-input error
\* before a backend is constructed or called, and every call of transform made
\* by transformCommand carries a non-empty prompt.
C4_EmptyPromptRejected ==
  ViaCommand =>
    /\ (Ran("promptCheck") /\ ~Truthy(promptText)) =>
         /\ outcome = "InvalidInputError"
         /\ pc = "exited"
         /\ ~Ran("createProvider")
         /\ provider = NoProvider
         /\ calls = <<>> /\ requests = <<>>
    /\ \A i \in 1..Len(calls) : calls[i].prompt # NULL /\ Len(calls[i].prompt) > 0

\* the empty prompt is rejected although all three keys are configured
C4_Witness ==
  /\ ViaCommand
  /\ Credentialed(config) = ProviderIds
  /\ outcome = "InvalidInputError"
  /\ calls = <<>>

\* C5: without any credential the invocation ends with the configuration
\* error right after the credential check: stdin is not read, the prompt is not
\* checked, nothing is resolved or constructed and no request is made.
C5_NoCredentialFailsFirst ==
  (ViaCommand /\ Credentialed(store) = {}) =>
    /\ steps \in {<<>>, <<"credentialCheck">>}
    /\ Ran("credentialCheck") =>
         /\ outcome = "ConfigurationError"
         /\ pc = "exited"
         /\ exits = <<1>>
         /\ Cardinality(Labelled(stderr, "No API keys configured. Run airfine setup to configure.")) = 1
         /\ stderr[Len(stderr)].label = "No API keys configured. Run airfine setup to configure."
    /\ stdout = <<>>
    /\ providerName = "" /\ provider = NoProvider
    /\ calls = <<>> /\ requests = <<>>

\* no credential and no prompt: the outcome is the configuration error
C5_Witness ==
  /\ ViaCommand
  /\ Credentialed(store) = {}
  /\ ~Truthy(options.prompt)
  /\ outcome = "ConfigurationError"
  /\ steps = <<"credentialCheck">>

\* the context element of a request: the developer message of OpenAI, the
\* tagged block at the head of the Claude prompt body, the history entry of
\* the Gemini chat
ContextTag(c) == <<"<context>">> \o c \o <<"</context>">>

RequestWithoutContext(call, req) ==
  /\ req.messages = <<[role |-> "user", content |-> call.prompt]>>
  /\ req.history = <<>>

RequestWithContext(call, req) ==
  CASE call.kind = "openai" ->
         /\ req.messages = <<[role |-> "developer", content |-> call.context],
                             [role |-> "user", content |-> call.prompt]>>
         /\ req.history = <<>>
    [] call.kind = "claude" ->
         /\ req.messages = <<[role |-> "user",
                              content |-> ContextTag(call.context) \o <<"\n", "\n">> \o call.prompt]>>
         /\ req.history = <<>>
    [] call.kind = "gemini" ->
         /\ req.history = <<[role |-> "user", content |-> ContextTag(call.context)]>>
         /\ req.messages = <<[role |-> "user", content |-> call.prompt]>>

\* C6: for a context that is absent, empty or white space only, the request of
\* each backend holds the user prompt and nothing else; for any other context
\* it holds exactly one context element, the context unchanged, before the
\* prompt.
C6_BlankContextNotSent ==
  \A i \in 1..Len(calls) :
    IF Blank(calls[i].context)
    THEN RequestWithoutContext(calls[i], requests[i])
    ELSE RequestWithContext(calls[i], requests[i])

\* the Gemini backend called with a context of white space only starts the
\* chat without history
C6_Witness ==
  /\ calls # <<>>
  /\ calls[1].kind = "gemini"
  /\ calls[1].context = <<" ">>
  /\ requests[1].history = <<>>

\* C7: when the transform command is run without --context, the backend
\* receives no context and the request carries none.
C7_NoContextOptionSendsNone ==
  (entry = "cli" /\ argv.context = NULL) =>
    \A i \in 1..Len(calls) :
      /\ calls[i].context = NULL
      /\ RequestWithoutContext(calls[i], requests[i])

\* transformCommand has reported what transform returned or threw
Reported == ViaCommand /\ Ran("transform") /\ pc \in {"done", "exited"}

\* the lines the catch block prints
ErrorLabels == {"Error:", "Unknown error occurred"}

\* C8: when transform returns null or the empty string the outcome is
\* EmptyResult: nothing is written to stdout as a result and no line of the
\* error path is printed; Success always carries a non-empty text.
C8_EmptyResultIsNotFailure ==
  (Reported /\ ~response.throws) =>
    /\ (result = NULL \/ result = <<>>) =>
         /\ outcome = "EmptyResult"
         /\ \A i \in 1..Len(stdout) : stdout[i].label # ""
         /\ \A i \in 1..Len(stderr) : stderr[i].label \notin ErrorLabels
         /\ stderr = IF isQuietMode(options) THEN <<>>
                     ELSE <<Log("yellow", "Empty response from API.", <<>>)>>
    /\ outcome = "Success" =>
         /\ result # NULL /\ Len(result) > 0
         /\ \E i \in 1..Len(stdout) : stdout[i].label = "" /\ stdout[i].text # <<>>
    /\ outcome \in {"Success", "EmptyResult"}

\* the vendor answered with a choice whose content is the empty string
C8_Witness ==
  /\ Reported
  /\ provider.kind = "openai"
  /\ response.body = << <<>> >>
  /\ result = NULL
  /\ outcome = "EmptyResult"

\* C9 as claimed: whenever transform throws an Error the message of the error
\* is printed, in every presentation mode.
C9_MessageInEveryMode ==
  (Reported /\ response.throws /\ thrown.isError) =>
    /\ outcome = "Failure"
    /\ \E i \in 1..Len(stderr) : stderr[i].text = thrown.message

\* C9 amended: whenever transform throws an Error the outcome is Failure with
\* exit code 1 and nothing on stdout but the logs; outside quiet mode the
\* catch block prints the message of the error unchanged, for every backend;
\* in quiet mode (--quiet or --raw) the catch block prints nothing.
C9_MessageUnlessQuiet ==
  (Reported /\ response.throws /\ thrown.isError) =>
    /\ outcome = "Failure"
    /\ thrown = response.error
    /\ exits = <<1>>
    /\ \A i \in 1..Len(stdout) : stdout[i].label # ""
    /\ IF isQuietMode(options)
       THEN Labelled(stderr, "Error:") = {}
       ELSE /\ stderr # <<>>
            /\ stderr[Len(stderr)] = Log("red", "Error:", response.error.message)
            /\ Cardinality(Labelled(stderr, "Error:")) = 1

\* a failed call outside quiet mode, in before/after mode
C9_Witness ==
  /\ Reported /\ response.throws /\ thrown.isError
  /\ ~isQuietMode(options) /\ options.beforeAfter
  /\ outcome = "Failure"

\* the order of the steps of one invocation
StepOrder ==
  <<"credentialCheck", "readStdin", "promptCheck", "resolve", "createProvider", "transform">>

StepIndex(step) == CHOOSE i \in 1..Len(StepOrder) : StepOrder[i] = step

\* C10: the steps of an invocation run in the order credential check, prompt
\* check, resolution, createProvider, transform, each at most once and none
\* without those before it; transform is called at most once and one request
\* at most is made; after a failed or empty call the invocation has ended and
\* no further call follows.
C10_SingleCallInSequence ==
  /\ \A i, j \in 1..Len(steps) : i < j => StepIndex(steps[i]) < StepIndex(steps[j])
  /\ Ran("promptCheck") => Ran("credentialCheck")
  /\ Ran("resolve") => Ran("promptCheck")
  /\ Ran("createProvider") => Ran("resolve")
  /\ Ran("transform") => Ran("createProvider")
  /\ Len(calls) <= 1 /\ Len(requests) <= 1
  /\ Len(calls) = Cardinality({i \in 1..Len(steps) : steps[i] = "transform"})
       + (IF entry = "factory" /\ pc \in {"awaitVendor", "returned"} /\ provider # NoProvider
          THEN 1 ELSE 0)
  /\ outcome \in {"Failure", "EmptyResult"} =>
       (Len(calls) = 1 /\ Len(requests) = 1 /\ pc = "exited" /\ ~ENABLED Next)

\* a call that failed, after which the invocation has ended
C10_Witness ==
  /\ outcome = "Failure"
  /\ steps = <<"credentialCheck", "promptCheck", "resolve", "createProvider", "transform">>
  /\ Len(calls) = 1

\* the hardcoded fallback model of each provider
HardcodedModel ==
  [openai |-> <<"g", "pt-4o">>,
   claude |-> <<"c", "laude-3-7-sonnet-latest">>,
   gemini |-> <<"g", "emini-2.0-flash">>]

\* C11: the model sent to the vendor is the model option when it is given,
\* else the default model configured for the resolved provider when there is
\* one, else the hardcoded model of that provider; choosing it changes neither
\* the configuration nor the backend.
C11_ModelPrecedence ==
  ViaCommand =>
    \A i \in 1..Len(calls) :
      /\ requests[i].model =
           IF Truthy(options.model) THEN options.model
           ELSE IF Truthy(config.defaultModels[calls[i].kind])
                THEN config.defaultModels[calls[i].kind]
                ELSE HardcodedModel[calls[i].kind]
      /\ calls[i].model = requests[i].model
      /\ model = requests[i].model
      /\ config = store
      /\ provider = NewProvider(calls[i].kind, KeyOf(store, calls[i].kind), store)

\* no model option, and a default model is configured for the provider
C11_Witness ==
  /\ ViaCommand /\ Len(requests) = 1
  /\ ~Truthy(options.model)
  /\ provider.kind = "claude"
  /\ config.defaultModels.claude = CLAUDE35
  /\ requests[1].model = CLAUDE35

\* C12: a provider option outside openai, claude, gemini is handed to
\* createProvider as it is, whatever credentials exist; the invocation ends
\* with the unknown-provider diagnostic and exit code 1, and no backend is
\* constructed or called.
C12_UnknownOverrideFails ==
  (ViaCommand /\ options.provider \notin ProviderIds \cup {""}) =>
    /\ Ran("resolve") => providerName = options.provider
    /\ Ran("createProvider") =>
         /\ outcome = "ConfigurationError"
         /\ pc = "exited"
         /\ provider = NoProvider
         /\ stderr = <<Log("red", "Unknown provider: ", <<options.provider>>)>>
         /\ exits = <<1>>
    /\ calls = <<>> /\ requests = <<>>

\* an unknown provider option although all three keys are configured
C12_Witness ==
  /\ ViaCommand /\ Ran("createProvider")
  /\ options.provider = "mistral"
  /\ Credentialed(config) = ProviderIds
  /\ outcome = "ConfigurationError"

C14_ClaudeByDefault ==
  (ViaCommand /\ Ran("resolve") /\ options.provider = ""
     /\ Credentialed(config) # {}) =>
    IF config.claudeApiKey # ""
    THEN providerName = "claude"
    ELSE providerName \in Credentialed(config)

\* the label of the line a listing function prints when it fails
ListErrorLabel ==
  [openai |-> "Error fetching OpenAI models:",
   claude |-> "Error fetching Claude models:",
   gemini |-> "Error fetching Gemini models:"]

\* C15: fetchAvailableModels never fails; when it returns, the listing of
\* every provider that has a key has completed, and the result has an entry
\* for exactly those providers: the empty list for a provider whose listing
\* failed (it printed its error line), and for every one the list its own
\* call returned.
C15_BatchJoinsAll ==
  entry = "models" =>
    /\ pc # "rejected"
    /\ pc # "returned" => \A p \in ProviderIds \ Credentialed(store) : available[p] = NoEntry
    /\ pc = "returned" =>
         \A p \in ProviderIds :
           IF p \in Credentialed(store)
           THEN /\ listState[p] = "done"
                /\ available[p] # NoEntry
                /\ available[p] = fetchModels(p, listResp[p]).list
                /\ Labelled(stderr, ListErrorLabel[p]) # {} => available[p] = <<>>
           ELSE /\ listState[p] = "idle"
                /\ available[p] = NoEntry

\* the listing of claude failed, the two others returned their lists
C15_Witness ==
  /\ entry = "models" /\ pc = "returned"
  /\ Credentialed(store) = ProviderIds
  /\ listResp["claude"].kind = "network"
  /\ available["claude"] = <<>>
  /\ available["openai"] = <<GPT4, O1ID>>
  /\ available["gemini"] = <<<<"g", "e", "m", "i", "n", "i", "-", "1">>>>

\* C16 as claimed: a listing function never throws; a rejected fetch, a
\* non-2xx status and a malformed body each give the empty list and one
\* printed line; one request is made per call.
C16_EmptyListOnEveryFailure ==
  entry = "models" =>
    \A p \in ProviderIds :
      /\ listState[p] \in {"idle", "pending", "done"}
      /\ listReqs[p] = IF listState[p] = "idle" THEN 0 ELSE 1
      /\ (listState[p] = "done" /\ listResp[p].kind \in FailureKinds) =>
           (available[p] = <<>> /\ Cardinality(Labelled(stderr, ListErrorLabel[p])) = 1)

\* the number of times x is in the list
Count(list, x) == Cardinality({i \in 1..Len(list) : list[i] = x})

\* the list is in lexicographic order
Sorted(list) == \A i \in 1..Len(list) : \A j \in 1..Len(list) : i < j => ~LexLess(list[j], list[i])

\* the identifier of a listed model: Gemini names them models/<identifier>
Identifier(p, name) ==
  IF p = "gemini" /\ startsWith(name, <<"m", "o", "d", "e", "l", "s", "/">>)
  THEN SubSeq(name, 8, Len(name))
  ELSE name

\* the model family of each vendor
InFamily(p, id) ==
  CASE p = "openai" -> startsWith(id, <<"g", "p", "t", "-">>) \/ startsWith(id, <<"o">>)
    [] p = "claude" -> startsWith(id, <<"c", "l", "a", "u", "d", "e">>)
    [] p = "gemini" -> startsWith(id, <<"g", "e", "m", "i", "n", "i", "-">>)

\* the list returned for the answer holds exactly the identifiers of the
\* answer that Kept accepts, as often as the answer does, in order
FilteredAndSorted(p, Kept(_, _)) ==
  LET ids == [i \in 1..Len(listResp[p].ids) |-> Identifier(p, listResp[p].ids[i])]
      out == available[p]
  IN /\ Sorted(out)
     /\ \A i \in 1..Len(out) : Kept(p, out[i])
     /\ \A i \in 1..Len(ids) :
          Count(out, ids[i]) = IF Kept(p, ids[i]) THEN Count(ids, ids[i]) ELSE 0
     /\ \A i \in 1..Len(out) : Count(ids, out[i]) > 0

\* C17 as claimed: for each of the three vendors the list of a successful
\* listing holds the identifiers of the vendor family and no other, sorted.
C17_OwnFamilySorted ==
  entry = "models" =>
    \A p \in ProviderIds :
      (listState[p] = "done" /\ listResp[p].kind = "ok") => FilteredAndSorted(p, InFamily)

\* what each listing function keeps: Claude keeps every identifier
KeptByVendor(p, id) == p = "claude" \/ InFamily(p, id)

\* C17 amended: the list of a successful listing is sorted lexicographically;
\* for OpenAI and Gemini it holds the identifiers of the vendor family (gpt-
\* or o; gemini- after models/ is removed) and no other; for Claude it holds
\* every identifier the vendor returned, unfiltered.
C17_FilteredExceptClaude ==
  entry = "models" =>
    \A p \in ProviderIds :
      (listState[p] = "done" /\ listResp[p].kind = "ok") => FilteredAndSorted(p, KeptByVendor)

\* Claude returned an identifier outside its family, which is kept, and OpenAI
\* one that is removed
C17_Witness ==
  /\ entry = "models" /\ pc = "returned"
  /\ listResp["claude"] = [kind |-> "ok", ids |-> <<TITAN, CLAUDE2>>]
  /\ available["claude"] = <<CLAUDE2, TITAN>>
  /\ listResp["openai"] = [kind |-> "ok", ids |-> <<O1ID, DALLE>>]
  /\ available["openai"] = <<O1ID>>

\* C18: a request of the OpenAI backend is made for the effective model
\* (the given one, or the default of the backend when the given one is
\* empty); it has the temperature 0.7 if and only if that identifier does
\* not begin with the letter o, and no temperature field otherwise.
C18_TemperatureUnlessO ==
  \A i \in 1..Len(requests) :
    requests[i].vendor = "openai" =>
      LET given == calls[i].model
          effective == IF given # NoModel THEN given ELSE getDefaultModel(provider)
      IN /\ requests[i].model = effective
         /\ requests[i].temperature = IF effective[1] = "o" THEN "omitted" ELSE "0.7"

\* no model is given and the configured default o3-mini begins with o
C18_Witness ==
  /\ Len(requests) = 1
  /\ requests[1].vendor = "openai"
  /\ calls[1].model = NoModel
  /\ requests[1].model = O3MINI
  /\ requests[1].temperature = "omitted"

\* the Claude backend has returned from a call the vendor answered
ClaudeAnswered ==
  /\ Len(requests) = 1 /\ requests[1].vendor = "claude"
  /\ pc # "awaitVendor"
  /\ ~response.throws

\* C19 as claimed: the result of the Claude backend is the texts of the
\* blocks of type text, in order, joined with one newline, blocks of other
\* types skipped; without content block, without text block or with only
\* empty text the result is null; nothing is thrown.
C19_TextBlocksJoinedOrNull ==
  ClaudeAnswered =>
    LET IsText(b) == b.type = "text"
        blocks == SelectSeq(response.body, IsText)
        texts == [i \in 1..Len(blocks) |-> blocks[i].text]
    IN /\ thrown = NoError
       /\ result = IF \A i \in 1..Len(texts) : texts[i] = <<>>
                   THEN NULL
                   ELSE join(texts)

\* C20 as claimed: in quiet mode (quiet or raw) an invocation of the command
\* prints nothing but the result text, whatever its outcome: no line on
\* stderr, and on stdout at most the result, written as it is.
C20_QuietPrintsOnlyResult ==
  (ViaCommand /\ pc # "argv" /\ isQuietMode(options)) =>
    /\ stderr = <<>>
    /\ \/ stdout = <<>>
       \/ result # NULL /\ stdout = <<Write(result)>>

\* C21: getModelSuggestions returns the fixed list of its provider, in the
\* fixed order, and the empty list for an identifier outside the closed set;
\* it prints nothing and changes nothing.
C21_FixedSuggestions ==
  (entry = "suggestions" /\ pc = "returned") =>
    /\ suggestions =
         CASE argv.provider = "openai" ->
                <<<<"g", "pt-4o">>, <<"g", "pt-4o-mini">>, <<"o", "1">>,
                  <<"o", "1-mini">>, <<"o", "3-mini">>>>
           [] argv.provider = "claude" ->
                <<<<"c", "laude-3-7-sonnet-latest">>, <<"c", "laude-3-5-sonnet-latest">>,
                  <<"c", "laude-3-5-haiku-latest">>>>
           [] argv.provider = "gemini" ->
                <<<<"g", "emini-2.0-flash">>, <<"g", "emini-2.0-flash-lite">>,
                  <<"g", "emini-1.5-pro">>>>
           [] OTHER -> <<>>
    /\ stdout = <<>> /\ stderr = <<>>

\* an identifier outside the closed set: the empty list
C21_Witness ==
  /\ entry = "suggestions" /\ pc = "returned"
  /\ argv.provider = "mistral"
  /\ suggestions = <<>>

\* C24: loadConfig never throws; it returns the empty configuration when
\* the file does not exist and when reading or parsing it fails, and the
\* configuration stored in the file otherwise.
C24_LoadConfigNeverThrows ==
  /\ pc # "crashed"
  /\ (ViaCommand /\ Ran("credentialCheck")) =>
       config = IF fileState = "ok" THEN store ELSE EmptyConfig

\* the file cannot be parsed: the empty configuration, hence no API key
C24_Witness ==
  /\ ViaCommand /\ Ran("credentialCheck")
  /\ fileState = "corrupt"
  /\ config = EmptyConfig
  /\ outcome = "ConfigurationError"

\* C25: after any runs of the setup command on any configuration, a
\* transform with a prompt and with no provider option or a recognized one
\* resolves, when an API key is stored, to a provider whose key is stored, and
\* createProvider returns a backend with that key: the invocation does not
\* end before the backend exists.
C25_SetupKeepsTransformUsable ==
  (entry = "session" /\ Credentialed(store) # {}) =>
    /\ Ran("resolve") => providerName \in Credentialed(store)
    /\ Ran("createProvider") =>
         /\ provider # NoProvider
         /\ provider.kind = providerName
         /\ provider.apiKey = KeyOf(store, providerName)
    /\ pc \in {"done", "exited"} => (Ran("createProvider") /\ outcome # "ConfigurationError")

\* the default provider chosen in the last setup run has no key
C25_Witness ==
  /\ entry = "session"
  /\ Len(setups) = 2
  /\ setups[2].choice = "default" /\ setups[2].name = "claude"
  /\ store.claudeApiKey = ""
  /\ options.provider = ""
  /\ Ran("createProvider")
  /\ providerName = "gemini"
  /\ provider.apiKey = "AIza-g2"

\* the setup runs that saved an API key, and those that chose a default
KeySaves == {i \in 1..Len(setups) : setups[i].choice \in ProviderIds}
DefaultChoices == {i \in 1..Len(setups) : setups[i].choice = "default"}

\* the stored API keys of the providers other than name are the same
OtherKeysKept(before, after, name) ==
  \A q \in ProviderIds \ {name} : KeyOf(after, q) = KeyOf(before, q)

\* C28: a setup run that saves an API key makes that provider the default
\* provider only when none is set; the default provider is changed by nothing
\* but that and an explicit choice, so that from a configuration without
\* default it stays the first provider whose key was saved until the user
\* chooses one; no run removes or changes the API key of another provider.
C28_FirstSavedStaysDefault ==
  entry = "session" =>
    /\ \A i \in 1..Len(setups) :
         LET run == setups[i]
         IN /\ run.choice \in ProviderIds =>
                 /\ run.after.defaultProvider =
                      IF run.before.defaultProvider = "" THEN run.name
                      ELSE run.before.defaultProvider
                 /\ KeyOf(run.after, run.name) # ""
                 /\ OtherKeysKept(run.before, run.after, run.name)
            /\ run.choice = "default" =>
                 /\ run.after.defaultProvider = run.name
                 /\ OtherKeysKept(run.before, run.after, "")
            /\ run.choice = "defaultModels" =>
                 /\ run.after.defaultProvider = run.before.defaultProvider
                 /\ OtherKeysKept(run.before, run.after, "")
            /\ i < Len(setups) => setups[i + 1].before = run.after
    /\ Len(setups) > 0 =>
         /\ store = setups[Len(setups)].after
         /\ (setups[1].before.defaultProvider = "" /\ DefaultChoices = {} /\ KeySaves # {}) =>
              store.defaultProvider =
                setups[CHOOSE i \in KeySaves : \A j \in KeySaves : i <= j].name

\* the key of gemini is saved first, then the key of openai: gemini stays the
\* default provider
C28_Witness ==
  /\ entry = "session"
  /\ Len(setups) = 2
  /\ setups[1].before = EmptyConfig
  /\ setups[1].choice = "gemini" /\ setups[2].choice = "openai"
  /\ store.defaultProvider = "gemini"
  /\ store.openaiApiKey = "sk-o2" /\ store.geminiApiKey = "AIza-g2"

\* C22: no step of transformCommand and of fetchAvailableModels changes the
\* configuration file or, once loaded, the configuration object (API keys,
\* default provider, default models); a backend keeps the API key and the
\* configuration it was constructed with, and sends that key.
C22_ConfigurationReadOnly ==
  [][(entry \in {"cli", "api", "session", "models"} /\ setups' = setups) =>
       /\ store' = store
       /\ fileState' = fileState
       /\ (Ran("credentialCheck") \/ pc = "joining") => config' = config
       /\ provider # NoProvider => provider' = provider
       /\ \A i \in 1..Len(requests') : requests'[i].apiKey = provider'.apiKey]_vars

\* a transform that succeeded: the file holds what it held
C22_Witness ==
  /\ entry = "api" /\ outcome = "Success"
  /\ store = MkConfig(AllKeys, "", SomeModels)
  /\ config = store
  /\ provider.kind = "claude" /\ provider.apiKey = "sk-ant-c"
  /\ requests[1].apiKey = "sk-ant-c"

\* the text without the white space at its two ends
Trimmed(t) ==
  LET inner == {<<i, j>> \in (1..Len(t)) \X (1..Len(t)) :
                  /\ i <= j
                  /\ ~IsSpace(t[i]) /\ ~IsSpace(t[j])
                  /\ \A k \in 1..Len(t) : (k < i \/ k > j) => IsSpace(t[k])}
  IN IF inner = {} THEN <<>>
     ELSE LET ij == CHOOSE x \in inner : TRUE IN SubSeq(t, ij[1], ij[2])

WhiteSpaceOnly(t) == t # NULL /\ Len(t) > 0 /\ \A i \in 1..Len(t) : IsSpace(t[i])

\* the text ends with the suffix
EndsWith(t, suffix) ==
  /\ Len(suffix) <= Len(t)
  /\ SubSeq(t, Len(t) - Len(suffix) + 1, Len(t)) = suffix

\* C29: a prompt option made of white space only passes the prompt check
\* without stdin being read and is sent to the backend as it is; piped data
\* made of white space only gives the empty prompt and the no-prompt error.
C29_WhiteSpacePromptAccepted ==
  (ViaCommand /\ Ran("promptCheck")) =>
    /\ WhiteSpaceOnly(options.prompt) =>
         /\ ~Ran("readStdin")
         /\ promptText = options.prompt
         /\ outcome # "InvalidInputError"
         /\ pc # "checkPrompt"
         /\ \A i \in 1..Len(calls) :
              /\ calls[i].prompt = options.prompt
              /\ EndsWith(requests[i].messages[Len(requests[i].messages)].content,
                          options.prompt)
    /\ (Ran("readStdin") /\ ~stdin.isTTY /\ WhiteSpaceOnly(stdin.data)) =>
         /\ promptText = <<>>
         /\ outcome = "InvalidInputError"
         /\ calls = <<>>

\* two spaces given as prompt option are sent to Claude
C29_Witness ==
  /\ ViaCommand
  /\ options.prompt = <<" ", " ">>
  /\ Len(calls) = 1 /\ calls[1].kind = "claude"
  /\ calls[1].prompt = <<" ", " ">>
  /\ outcome = "Success"

\* C26: the model of the model option is passed as it is to the backend that
\* was resolved and sent by it, also when the provider option names a
\* provider without key and another provider is used; without model option
\* the model is the default model of the resolved backend.
C26_ModelOverrideSurvivesFallback ==
  ViaCommand =>
    \A i \in 1..Len(calls) :
      LET kind == calls[i].kind
      IN /\ kind = providerName
         /\ requests[i].vendor = kind
         /\ requests[i].model = calls[i].model
         /\ calls[i].model =
              IF options.model # NoModel THEN options.model
              ELSE IF config.defaultModels[kind] # NoModel
                   THEN config.defaultModels[kind]
                   ELSE HardcodedModel[kind]

\* claude is asked for but has no key: its model goes to OpenAI
C26_Witness ==
  /\ ViaCommand
  /\ options.provider = "claude" /\ config.claudeApiKey = ""
  /\ options.model = <<"c", "laude-3-5-sonnet-latest">>
  /\ Len(requests) = 1
  /\ requests[1].vendor = "openai"
  /\ requests[1].model = <<"c", "laude-3-5-sonnet-latest">>

\* the places of stdout where the result text is written: as it is, or
\* between two newlines; the line after the Before header is the prompt
ResultWrites ==
  {i \in 1..Len(stdout) :
     /\ stdout[i].label = ""
     /\ stdout[i].text \in {result, <<"\n">> \o result \o <<"\n">>}
     /\ ~(i > 1 /\ stdout[i - 1].label = "\n=== Before ===")}

\* C27: in every outcome but Success process.exit is called, once and with
\* status 1, and nothing of a result is on stdout; on Success exit is not
\* called and the result text is on stdout exactly once.
C27_ExitOneUnlessSuccess ==
  ViaCommand =>
    /\ outcome \in {"ConfigurationError", "InvalidInputError", "EmptyResult", "Failure"} =>
         /\ exits = <<1>>
         /\ pc = "exited"
         /\ \A i \in 1..Len(stdout) : stdout[i].label # ""
    /\ outcome = "Success" =>
         /\ exits = <<>>
         /\ pc = "done"
         /\ result # NULL
         /\ Cardinality(ResultWrites) = 1
    /\ outcome = "none" =>
         /\ exits = <<>>
         /\ \A i \in 1..Len(stdout) : stdout[i].label # ""

\* before and after mode with a result equal to the prompt
C27_Witness ==
  /\ ViaCommand
  /\ outcome = "Success"
  /\ options.beforeAfter /\ ~isQuietMode(options)
  /\ promptText = result
  /\ exits = <<>>

\* C30: when piped stdin ends and the vendor call returns or throws, an
\* invocation of the command reaches a terminal outcome and keeps it; an
\* invocation leaves the wait for the vendor only with the answer or the
\* error of the vendor, so that it has no outcome as long as the call does
\* not complete.
C30_OneOutcomeUnlessHung ==
  /\ ViaCommand ~> (outcome # "none" /\ pc \in {"done", "exited"})
  /\ [][outcome # "none" => outcome' = outcome]_vars
  /\ [](pc = "awaitVendor" => outcome = "none")
  /\ [][(pc = "awaitVendor" /\ pc' # "awaitVendor") =>
          (response' \in Responses(provider.kind) /\ outcome' = "none" /\ exits' = exits)]_vars

\* stdin was read to its end and the vendor answered
C30_Witness ==
  /\ ViaCommand
  /\ Ran("readStdin") /\ ~stdin.isTTY
  /\ Ran("transform")
  /\ outcome = "Success"
  /\ pc = "done"

====
